---- MODULE Spec2Model ----
(***************************************************************************)
(* State-machine model of ContentDiscoveryBot                              *)
(* (migrated_functionality/src/content-discovery-integration.js).          *)
(*                                                                         *)
(* The four Maps of the constructor and the indexingStatus object are the  *)
(* state.  Every handler of the class runs to completion on the single     *)
(* JavaScript thread, so each handler is one action; the only suspension   *)
(* point is `await response.json()` in processAJAXResponse, which splits   *)
(* that handler in two actions.                                            *)
(***************************************************************************)
EXTENDS Integers, Sequences, FiniteSets, TLC

\* ------------------------------------------------------------------ bounds
MaxNow   == 86400001   \* the clock stops advancing here
MaxDrift == 1          \* instants observed: at most this far past a multiple of maxAge
MaxCount == 2          \* cap of the status counters in the guards
MaxEdges == 2          \* cap of an adjacency list in the guards
MaxRecords == 2        \* captures counted as indexed in the query specification

\* --------------------------------------------------------------- constants
maxAge == 24 * 60 * 60 * 1000      \* cleanupOldContent: retention window (ms)
HourMs == 1000 * 60 * 60           \* calculateUpdateFrequency: ms per hour

TickSteps == {1, maxAge}           \* amounts by which Date.now() advances

\* ------------------------------------------------------------------ inputs
\* A JavaScript value that is not a string (localStorage.setItem(key, 42)
\* hands the raw argument to the storageChange event).
NumberValue == "#number:42"

typeOf(v) == IF v = NumberValue THEN "number" ELSE "string"

TextA == "Dashboard system health metric"
TextB == "Service status ok"

\* DOM elements the observers can hand to processNewContent.  textContent is
\* the trimmed text; textPrefix is textContent.substring(0, 50).
\* E1 and E2 carry the same text under different tags, hence different ids.
E1 == [tagName |-> "DIV",  elId |-> "card", className |-> "dashboard-card",
       textPrefix |-> TextA, textContent |-> TextA, title |-> "",
       description |-> "", href |-> FALSE,
       parent |-> TRUE,  refreshSel |-> TRUE,  fullSel |-> TRUE]
E2 == [tagName |-> "SPAN", elId |-> "",     className |-> "service-item",
       textPrefix |-> TextA, textContent |-> TextA, title |-> "Health",
       description |-> "", href |-> FALSE,
       parent |-> FALSE, refreshSel |-> TRUE,  fullSel |-> TRUE]

Elements == {E1, E2}

\* Further elements, captured in the query specification only: one per
\* classification rule, with titles, descriptions and texts on both sides of
\* the quality-score thresholds.
P1 == [tagName |-> "DIV", elId |-> "p1", className |-> "dashboard-card",
       textPrefix |-> "Dashboard overview", textContent |-> "Dashboard overview",
       title |-> "Main dashboard", description |-> "", href |-> FALSE,
       parent |-> TRUE, refreshSel |-> TRUE, fullSel |-> TRUE]
P2 == [tagName |-> "DIV", elId |-> "p2", className |-> "panel",
       textPrefix |-> "User profile page", textContent |-> "User profile page",
       title |-> "", description |-> "", href |-> FALSE,
       parent |-> FALSE, refreshSel |-> FALSE, fullSel |-> TRUE]
P3 == [tagName |-> "DIV", elId |-> "p3", className |-> "widget",
       textPrefix |-> "Performance chart of load over time",
       textContent |-> "Performance chart of load over time",
       title |-> "Performance", description |-> "Load over time", href |-> FALSE,
       parent |-> FALSE, refreshSel |-> FALSE, fullSel |-> TRUE]
P4 == [tagName |-> "DIV", elId |-> "p4", className |-> "panel",
       textPrefix |-> "Hello world. Nothing to see [1,2]",
       textContent |-> "Hello world. Nothing to see [1,2]",
       title |-> "", description |-> "Not on the dashboard", href |-> FALSE,
       parent |-> FALSE, refreshSel |-> FALSE, fullSel |-> TRUE]
P5 == [tagName |-> "IMG", elId |-> "p5", className |-> "",
       textPrefix |-> "", textContent |-> "",
       title |-> "Logo", description |-> "", href |-> FALSE,
       parent |-> FALSE, refreshSel |-> FALSE, fullSel |-> TRUE]
P6 == [tagName |-> "IMG", elId |-> "p6", className |-> "",
       textPrefix |-> "", textContent |-> "",
       title |-> "", description |-> "", href |-> FALSE,
       parent |-> FALSE, refreshSel |-> FALSE, fullSel |-> TRUE]
P7 == [tagName |-> "SPAN", elId |-> "p7", className |-> "service-item",
       textPrefix |-> "Status ok", textContent |-> "Status ok",
       title |-> "", description |-> "", href |-> FALSE,
       parent |-> FALSE, refreshSel |-> TRUE, fullSel |-> TRUE]

P8 == [tagName |-> "SPAN", elId |-> "p8", className |-> "panel",
       textPrefix |-> "1.2.3", textContent |-> "1.2.3",
       title |-> "", description |-> "", href |-> FALSE,
       parent |-> FALSE, refreshSel |-> FALSE, fullSel |-> TRUE]

ProbeElements == {P1, P2, P3, P4, P5, P6, P7, P8}

\* calls of searchContent(query, filters); "" stands for a filter that is not
\* supplied (the code tests `filters.category &&`)
NoFilters == [category |-> "", priority |-> "", type |-> ""]

Requests ==
  {[query |-> "dashboard", filters |-> NoFilters],
   [query |-> "Dashboard", filters |-> [NoFilters EXCEPT !.priority = "high"]],
   [query |-> "dashboard",
    filters |-> [NoFilters EXCEPT !.category = "dashboard", !.type = "text"]],
   [query |-> "User Profile", filters |-> NoFilters],
   [query |-> ".", filters |-> NoFilters],
   [query |-> "[1", filters |-> NoFilters],
   [query |-> "", filters |-> [NoFilters EXCEPT !.priority = "low", !.type = "text"]],
   [query |-> "zzz", filters |-> NoFilters]}

\* the request url, split at "/"
Url == <<"", "api", "health">>
AjaxPayload == [json |-> "[1,2]"]

\* Further responses, handled in the sources specification only: the url
\* "/api/" (its last segment is empty) and the JSON body `""` (response.json()
\* resolves with the empty string, which is used as the text as it is).
UrlSlash == <<"", "api", "">>
EmptyStringPayload == [json |-> ""]

Urls == {Url, UrlSlash}
Payloads == {AjaxPayload, EmptyStringPayload}

StorageKey == "theme"
StorageValues == {TextA, TextB, NumberValue}

\* localStorage.setItem(key, '') as well
SourceStorageValues == StorageValues \cup {""}

Handlers == {1, 2}

\* ----------------------------------------------------------------- strings
\* A JavaScript string is named by a TLA+ string; CharsOf lists its
\* characters, on which the string methods are computed.
CharsOf ==
  "" :> <<>> @@
  " " :> <<" ">> @@
  "Dashboard system health metric" :> <<"D", "a", "s", "h", "b", "o", "a", "r", "d", " ", "s", "y", "s", "t", "e", "m", " ", "h", "e", "a", "l", "t", "h", " ", "m", "e", "t", "r", "i", "c">> @@
  "Service status ok" :> <<"S", "e", "r", "v", "i", "c", "e", " ", "s", "t", "a", "t", "u", "s", " ", "o", "k">> @@
  "[1,2]" :> <<"[", "1", ",", "2", "]">> @@
  "Dashboard overview" :> <<"D", "a", "s", "h", "b", "o", "a", "r", "d", " ", "o", "v", "e", "r", "v", "i", "e", "w">> @@
  "User profile page" :> <<"U", "s", "e", "r", " ", "p", "r", "o", "f", "i", "l", "e", " ", "p", "a", "g", "e">> @@
  "Performance chart" :> <<"P", "e", "r", "f", "o", "r", "m", "a", "n", "c", "e", " ", "c", "h", "a", "r", "t">> @@
  "Hello world. Nothing to see [1,2]" :> <<"H", "e", "l", "l", "o", " ", "w", "o", "r", "l", "d", ".", " ", "N", "o", "t", "h", "i", "n", "g", " ", "t", "o", " ", "s", "e", "e", " ", "[", "1", ",", "2", "]">> @@
  "Status ok" :> <<"S", "t", "a", "t", "u", "s", " ", "o", "k">> @@
  "Performance chart of load over time" :> <<"P", "e", "r", "f", "o", "r", "m", "a", "n", "c", "e", " ", "c", "h", "a", "r", "t", " ", "o", "f", " ", "l", "o", "a", "d", " ", "o", "v", "e", "r", " ", "t", "i", "m", "e">> @@
  "1.2.3" :> <<"1", ".", "2", ".", "3">> @@
  "Performance" :> <<"P", "e", "r", "f", "o", "r", "m", "a", "n", "c", "e">> @@
  "Health" :> <<"H", "e", "a", "l", "t", "h">> @@
  "health" :> <<"h", "e", "a", "l", "t", "h">> @@
  "Storage: theme" :> <<"S", "t", "o", "r", "a", "g", "e", ":", " ", "t", "h", "e", "m", "e">> @@
  "Main dashboard" :> <<"M", "a", "i", "n", " ", "d", "a", "s", "h", "b", "o", "a", "r", "d">> @@
  "Logo" :> <<"L", "o", "g", "o">> @@
  "AJAX response data" :> <<"A", "J", "A", "X", " ", "r", "e", "s", "p", "o", "n", "s", "e", " ", "d", "a", "t", "a">> @@
  "Local storage data" :> <<"L", "o", "c", "a", "l", " ", "s", "t", "o", "r", "a", "g", "e", " ", "d", "a", "t", "a">> @@
  "Load over time" :> <<"L", "o", "a", "d", " ", "o", "v", "e", "r", " ", "t", "i", "m", "e">> @@
  "Not on the dashboard" :> <<"N", "o", "t", " ", "o", "n", " ", "t", "h", "e", " ", "d", "a", "s", "h", "b", "o", "a", "r", "d">> @@
  "dashboard-card" :> <<"d", "a", "s", "h", "b", "o", "a", "r", "d", "-", "c", "a", "r", "d">> @@
  "service-item" :> <<"s", "e", "r", "v", "i", "c", "e", "-", "i", "t", "e", "m">> @@
  "panel" :> <<"p", "a", "n", "e", "l">> @@
  "widget" :> <<"w", "i", "d", "g", "e", "t">> @@
  "DIV" :> <<"D", "I", "V">> @@
  "SPAN" :> <<"S", "P", "A", "N">> @@
  "IMG" :> <<"I", "M", "G">> @@
  "img" :> <<"i", "m", "g">> @@
  "video" :> <<"v", "i", "d", "e", "o">> @@
  "audio" :> <<"a", "u", "d", "i", "o">> @@
  "code" :> <<"c", "o", "d", "e">> @@
  "table" :> <<"t", "a", "b", "l", "e">> @@
  "a" :> <<"a">> @@
  "image" :> <<"i", "m", "a", "g", "e">> @@
  "dashboard" :> <<"d", "a", "s", "h", "b", "o", "a", "r", "d">> @@
  "service" :> <<"s", "e", "r", "v", "i", "c", "e">> @@
  "metric" :> <<"m", "e", "t", "r", "i", "c">> @@
  "user" :> <<"u", "s", "e", "r">> @@
  "system" :> <<"s", "y", "s", "t", "e", "m">> @@
  "error" :> <<"e", "r", "r", "o", "r">> @@
  "status" :> <<"s", "t", "a", "t", "u", "s">> @@
  "performance" :> <<"p", "e", "r", "f", "o", "r", "m", "a", "n", "c", "e">> @@
  "profile" :> <<"p", "r", "o", "f", "i", "l", "e">> @@
  "config" :> <<"c", "o", "n", "f", "i", "g">> @@
  "the" :> <<"t", "h", "e">> @@
  "and" :> <<"a", "n", "d">> @@
  "is" :> <<"i", "s">> @@
  "are" :> <<"a", "r", "e">> @@
  "for" :> <<"f", "o", "r">> @@
  "with" :> <<"w", "i", "t", "h">> @@
  "this" :> <<"t", "h", "i", "s">> @@
  "that" :> <<"t", "h", "a", "t">> @@
  "Dashboard" :> <<"D", "a", "s", "h", "b", "o", "a", "r", "d">> @@
  "User Profile" :> <<"U", "s", "e", "r", " ", "P", "r", "o", "f", "i", "l", "e">> @@
  "." :> <<".">> @@
  "[1" :> <<"[", "1">> @@
  "zzz" :> <<"z", "z", "z">>

Chars(s) == CharsOf[s]

UpperToLower ==
  "A" :> "a" @@ "B" :> "b" @@ "C" :> "c" @@ "D" :> "d" @@ "E" :> "e" @@ "F" :> "f" @@ 
  "G" :> "g" @@ "H" :> "h" @@ "I" :> "i" @@ "J" :> "j" @@ "K" :> "k" @@ "L" :> "l" @@ 
  "M" :> "m" @@ "N" :> "n" @@ "O" :> "o" @@ "P" :> "p" @@ "Q" :> "q" @@ "R" :> "r" @@ 
  "S" :> "s" @@ "T" :> "t" @@ "U" :> "u" @@ "V" :> "v" @@ "W" :> "w" @@ "X" :> "x" @@ 
  "Y" :> "y" @@ "Z" :> "z"

\* `const v = x; ... F(v)`: x is evaluated once and F is applied to its value
Const(x, F(_)) == CHOOSE r \in {F(v) : v \in {x}} : TRUE

toLowerCase(cs) ==
  Const(cs, LAMBDA s :
    [i \in 1..Len(s) |-> IF s[i] \in DOMAIN UpperToLower THEN UpperToLower[s[i]] ELSE s[i]])

\* String.prototype.includes
includes(hay, needle) ==
  \E h \in {hay}, n \in {needle} :
     \E i \in 0..(Len(h) - Len(n)) :
        \A j \in 1..Len(n) : h[i + j] = n[j]

\* Array.prototype.join(' ')
RECURSIVE joinSpace(_)
joinSpace(parts) ==
  IF parts = <<>> THEN <<>>
  ELSE IF Len(parts) = 1 THEN parts[1]
  ELSE parts[1] \o <<" ">> \o joinSpace(Tail(parts))

\* String.prototype.split(/\s+/): a run of whitespace separates two pieces,
\* so leading or trailing whitespace yields an empty piece
RECURSIVE splitFrom(_, _, _, _)
splitFrom(cs, i, piece, pieces) ==
  IF i > Len(cs) THEN Append(pieces, piece)
  ELSE IF cs[i] = " "
       THEN IF i > 1 /\ cs[i - 1] = " "
            THEN splitFrom(cs, i + 1, piece, pieces)
            ELSE splitFrom(cs, i + 1, <<>>, Append(pieces, piece))
       ELSE splitFrom(cs, i + 1, Append(piece, cs[i]), pieces)

splitWhitespace(cs) == splitFrom(cs, 1, <<>>, <<>>)

\* ------------------------------------------------------------------- state
VARIABLES
  contentIndex,        \* Map id -> contentData
  metadataStore,       \* Map id -> metadata
  relationshipGraph,   \* Map id -> sequence of relationships
  contentCache,        \* Map id -> search entry
  indexingStatus,      \* {totalContent, indexedContent, pendingContent, failedContent}
  now,                 \* Date.now()
  pc,                  \* per fetch: position of processAJAXResponse
  modernSearch,        \* window.modernSearch: "absent" (or a call that returns), or "throws"
  destroyed,           \* history: destroy() has been called
  fullFailed,          \* history: the latest full-discovery pass threw partway
  answer,              \* value returned by the latest read operation, until
                       \* the engine changes
  inFlight             \* the indexContent call in progress: its position, its
                       \* contentData and the steps it has taken; <<>> between calls

vars == <<contentIndex, metadataStore, relationshipGraph, contentCache,
          indexingStatus, now, pc, modernSearch, destroyed, fullFailed, answer, inFlight>>

EmptyMap == <<>>

Size(m) == Cardinality(DOMAIN m)

\* Map.set
MapSet(m, k, v) == [x \in (DOMAIN m) \cup {k} |-> IF x = k THEN v ELSE m[x]]

\* Map.delete of a set of keys
MapDelete(m, ks) == [x \in (DOMAIN m) \ ks |-> m[x]]

\* The engine's mutable fields, threaded through the synchronous calls.
Engine == [contentIndex |-> contentIndex, metadataStore |-> metadataStore,
           relationshipGraph |-> relationshipGraph, contentCache |-> contentCache,
           indexingStatus |-> indexingStatus]

Install(s) ==
  \E v \in {s} :
     /\ contentIndex' = v.contentIndex
     /\ metadataStore' = v.metadataStore
     /\ relationshipGraph' = v.relationshipGraph
     /\ contentCache' = v.contentCache
     /\ indexingStatus' = v.indexingStatus

ZeroStatus == [totalContent |-> 0, indexedContent |-> 0,
               pendingContent |-> 0, failedContent |-> 0]

Init ==
  /\ contentIndex = EmptyMap
  /\ metadataStore = EmptyMap
  /\ relationshipGraph = EmptyMap
  /\ contentCache = EmptyMap
  /\ indexingStatus = ZeroStatus
  /\ now = 0
  /\ pc = [h \in Handlers |-> "idle"]
  /\ modernSearch = "absent"
  /\ destroyed = FALSE
  /\ fullFailed = FALSE
  /\ answer = <<>>
  /\ inFlight = <<>>

\* ------------------------------------------------------- record building
generateContentId(element) ==
  <<element.tagName, element.elId, element.className, element.textPrefix>>

detectContentType(element) ==
  LET tagName   == toLowerCase(Chars(element.tagName))
      className == toLowerCase(Chars(element.className))
  IN IF tagName = Chars("img") \/ includes(className, Chars("image")) THEN "image"
     ELSE IF tagName = Chars("video") THEN "video"
     ELSE IF tagName = Chars("audio") THEN "audio"
     ELSE IF tagName = Chars("code") \/ includes(className, Chars("code")) THEN "code"
     ELSE IF tagName = Chars("table") \/ includes(className, Chars("table")) THEN "data"
     ELSE IF tagName = Chars("a") /\ element.href THEN "link"
     ELSE IF includes(className, Chars("dashboard")) THEN "dashboard"
     ELSE IF includes(className, Chars("service")) THEN "service"
     ELSE IF includes(className, Chars("metric")) THEN "metric"
     ELSE IF includes(className, Chars("user")) THEN "user"
     ELSE IF includes(className, Chars("system")) THEN "system"
     ELSE "text"

\* detectContentType depends on the element alone and is tabulated once
ElementTypes == {<<e, detectContentType(e)>> : e \in Elements \cup ProbeElements}

typeOfElement(element) == (CHOOSE p \in ElementTypes : p[1] = element)[2]

\* the attributes of an element that extractMetadata copies
extractMetadata(element) ==
  [k \in {a \in {"id", "className", "url"} :
             CASE a = "id" -> element.elId # ""
               [] a = "className" -> element.className # ""
               [] a = "url" -> element.href}
     |-> CASE k = "id" -> element.elId
           [] k = "className" -> element.className
           [] k = "url" -> "href"]

extractRelationships(element) ==
  IF element.parent THEN <<[type |-> "parent", target |-> "body"]>> ELSE <<>>

\* null is modelled as the empty sequence
Null == <<>>

extractContentFromElement(element, t) ==
  LET contentData == [id |-> generateContentId(element),
                      type |-> typeOfElement(element),
                      title |-> element.title,
                      description |-> element.description,
                      text |-> element.textContent,
                      metadata |-> extractMetadata(element),
                      relationships |-> extractRelationships(element),
                      timestamp |-> t,
                      source |-> "dom"]
  IN IF contentData.text # "" \/ contentData.title # "" THEN contentData ELSE Null

ajaxContentData(url, data, t) ==
  [id |-> <<"AJAX", "", "", url>>,
   type |-> "data",
   title |-> url[Len(url)],
   description |-> "AJAX response data",
   text |-> data.json,
   metadata |-> [k \in {"url", "method"} |-> IF k = "url" THEN url ELSE "GET"],
   relationships |-> <<>>,
   timestamp |-> t,
   source |-> "ajax"]

\* variant: the id of a storage record is built from the key and the value
storageContentData_idWithValue(key, value, t) ==
  [id |-> <<"storage", key, value>>,
   type |-> "data",
   title |-> "Storage: " \o key,
   description |-> "Local storage data",
   text |-> value,
   metadata |-> [k \in {"key", "storageType"} |->
                   IF k = "key" THEN key ELSE "localStorage"],
   relationships |-> <<>>,
   timestamp |-> t,
   source |-> "storage"]

storageContentData(key, value, t) ==
  [id |-> <<"storage", key>>,
   type |-> "data",
   title |-> "Storage: " \o key,
   description |-> "Local storage data",
   text |-> value,
   metadata |-> [k \in {"key", "storageType"} |->
                   IF k = "key" THEN key ELSE "localStorage"],
   relationships |-> <<>>,
   timestamp |-> t,
   source |-> "storage"]

\* ------------------------------------------------------------ indexing
\* variant: duplicates recognised by id instead of by (text, source)
isDuplicate_byId(index, contentData) == contentData.id \in DOMAIN index

\* variant: the scan never finds a match
isDuplicate_never(index, contentData) == FALSE

isDuplicate(index, contentData) ==
  \E id \in DOMAIN index :
     /\ index[id].text = contentData.text
     /\ index[id].source = contentData.source

\* ------------------------------------------------------- classification
\* lower-cased `text + ' ' + title`
combinedText(contentData) ==
  toLowerCase(Chars(contentData.text) \o <<" ">> \o Chars(contentData.title))

commonTags == <<"dashboard", "service", "metric", "user", "system",
                "error", "status", "health", "performance">>

\* the tags in the order of commonTags (forEach with push)
RECURSIVE tagsFrom(_, _)
tagsFrom(text, i) ==
  IF i > Len(commonTags) THEN <<>>
  ELSE (IF includes(text, Chars(commonTags[i])) THEN <<commonTags[i]>> ELSE <<>>)
         \o tagsFrom(text, i + 1)

\* variant: the first rule whose signal matches decides the category
classifyContent_firstMatch(contentData) ==
  LET text == combinedText(contentData)
      has(word) == includes(text, Chars(word))
      c == IF has("dashboard") \/ contentData.type = "dashboard"
           THEN [category |-> "dashboard", priority |-> "high", confidence |-> 9]
           ELSE IF has("service") \/ contentData.type = "service"
           THEN [category |-> "service", priority |-> "high", confidence |-> 8]
           ELSE IF has("metric") \/ has("performance") \/ contentData.type = "metric"
           THEN [category |-> "metric", priority |-> "medium", confidence |-> 8]
           ELSE IF has("user") \/ has("profile") \/ contentData.type = "user"
           THEN [category |-> "user", priority |-> "medium", confidence |-> 7]
           ELSE IF has("system") \/ has("config") \/ contentData.type = "system"
           THEN [category |-> "system", priority |-> "high", confidence |-> 8]
           ELSE [category |-> "unknown", priority |-> "low", confidence |-> 5]
  IN [category |-> c.category, priority |-> c.priority,
      tags |-> tagsFrom(text, 1), confidence |-> c.confidence]

\* variant: the metric rule leaves the priority of the earlier rules in place
classifyContent_metricKeepsPriority(contentData) ==
  LET text == combinedText(contentData)
      has(word) == includes(text, Chars(word))
      c0 == [category |-> "unknown", priority |-> "low", confidence |-> 5]
      c1 == IF has("dashboard") \/ contentData.type = "dashboard"
            THEN [category |-> "dashboard", priority |-> "high", confidence |-> 9]
            ELSE c0
      c2 == IF has("service") \/ contentData.type = "service"
            THEN [category |-> "service", priority |-> "high", confidence |-> 8]
            ELSE c1
      c3 == IF has("metric") \/ has("performance") \/ contentData.type = "metric"
            THEN [category |-> "metric", priority |-> c2.priority, confidence |-> 8]
            ELSE c2
      c4 == IF has("user") \/ has("profile") \/ contentData.type = "user"
            THEN [category |-> "user", priority |-> "medium", confidence |-> 7]
            ELSE c3
      c5 == IF has("system") \/ has("config") \/ contentData.type = "system"
            THEN [category |-> "system", priority |-> "high", confidence |-> 8]
            ELSE c4
  IN [category |-> c5.category, priority |-> c5.priority,
      tags |-> tagsFrom(text, 1), confidence |-> c5.confidence]

\* confidence is kept in tenths
classifyContent(contentData) ==
  LET text == combinedText(contentData)
      has(word) == includes(text, Chars(word))
      c0 == [category |-> "unknown", priority |-> "low", confidence |-> 5]
      c1 == IF has("dashboard") \/ contentData.type = "dashboard"
            THEN [category |-> "dashboard", priority |-> "high", confidence |-> 9]
            ELSE c0
      c2 == IF has("service") \/ contentData.type = "service"
            THEN [category |-> "service", priority |-> "high", confidence |-> 8]
            ELSE c1
      c3 == IF has("metric") \/ has("performance") \/ contentData.type = "metric"
            THEN [category |-> "metric", priority |-> "medium", confidence |-> 8]
            ELSE c2
      c4 == IF has("user") \/ has("profile") \/ contentData.type = "user"
            THEN [category |-> "user", priority |-> "medium", confidence |-> 7]
            ELSE c3
      c5 == IF has("system") \/ has("config") \/ contentData.type = "system"
            THEN [category |-> "system", priority |-> "high", confidence |-> 8]
            ELSE c4
  IN [category |-> c5.category, priority |-> c5.priority,
      tags |-> tagsFrom(text, 1), confidence |-> c5.confidence]

\* ----------------------------------------------------------- enrichment
\* enrichMetadata calls contentData.text.split(/\s+/): a TypeError unless the
\* text is a string.
enrichThrows(contentData) == typeOf(contentData.text) # "string"

englishWords == {"the", "and", "is", "are", "for", "with", "this", "that"}

\* englishWordCount / englishWords.length > 0.3
detectLanguage(text) ==
  LET englishWordCount ==
        Cardinality({w \in englishWords : includes(toLowerCase(Chars(text)), Chars(w))})
  IN IF 10 * englishWordCount > 3 * Cardinality(englishWords) THEN "english" ELSE "unknown"

\* variant: the score starts at 0
calculateQualityScore_zeroBase(contentData) ==
  LET s0 == 0
      s1 == IF contentData.title # "" /\ Len(contentData.title) > 5 THEN s0 + 2 ELSE s0
      s2 == IF contentData.description # "" /\ Len(contentData.description) > 10
            THEN s1 + 2 ELSE s1
      s3 == IF contentData.text # "" /\ Len(contentData.text) > 20 THEN s2 + 1 ELSE s2
  IN IF s3 < 10 THEN s3 ELSE 10

\* the score is kept in tenths
calculateQualityScore(contentData) ==
  LET s0 == 5
      s1 == IF contentData.title # "" /\ Len(contentData.title) > 5 THEN s0 + 2 ELSE s0
      s2 == IF contentData.description # "" /\ Len(contentData.description) > 10
            THEN s1 + 2 ELSE s1
      s3 == IF contentData.text # "" /\ Len(contentData.text) > 20 THEN s2 + 1 ELSE s2
  IN IF s3 < 10 THEN s3 ELSE 10

calculateUpdateFrequency(index, contentId, t) ==
  IF contentId \notin DOMAIN index THEN "unknown"
  ELSE LET age == t - index[contentId].timestamp
       IN IF age < HourMs THEN "high"
          ELSE IF age < 24 * HourMs THEN "medium"
          ELSE "low"

\* the part of enrichMetadata that depends on the content only
enrichContent(contentData) ==
  [contentLength |-> Len(contentData.text),
   wordCount |-> Len(splitWhitespace(Chars(contentData.text))),
   language |-> detectLanguage(contentData.text),
   qualityScore |-> calculateQualityScore(contentData)]

\* The contents the capture callbacks can produce, and what classifyContent
\* and enrichContent compute for each: both are functions of the content
\* alone and are tabulated once.
ContentKey(contentData) ==
  [type |-> contentData.type, title |-> contentData.title,
   description |-> contentData.description, text |-> contentData.text]

KnownContents ==
  {ContentKey(extractContentFromElement(e, 0)) :
      e \in {el \in Elements \cup ProbeElements : extractContentFromElement(el, 0) # Null}}
  \cup {ContentKey(ajaxContentData(url, data, 0)) : url \in Urls, data \in Payloads}
  \cup {ContentKey(storageContentData(StorageKey, v, 0)) :
          v \in {x \in SourceStorageValues : typeOf(x) = "string"}}

ClassifiedContents == {<<k, classifyContent(k)>> : k \in KnownContents}

EnrichedContents == {<<k, enrichContent(k)>> : k \in KnownContents}

classificationOf(contentData) ==
  (CHOOSE p \in ClassifiedContents : p[1] = ContentKey(contentData))[2]

enrichMetadata(index, contentData, t) ==
  LET content == (CHOOSE p \in EnrichedContents : p[1] = ContentKey(contentData))[2]
  IN [k \in {"contentLength", "wordCount", "language", "qualityScore", "updateFrequency"}
        |-> CASE k = "contentLength" -> content.contentLength
              [] k = "wordCount" -> content.wordCount
              [] k = "language" -> content.language
              [] k = "qualityScore" -> content.qualityScore
              [] k = "updateFrequency" ->
                    calculateUpdateFrequency(index, contentData.id, t)]

\* { ...a, ...b }
spread(a, b) ==
  [k \in (DOMAIN a) \cup (DOMAIN b) |-> IF k \in DOMAIN b THEN b[k] ELSE a[k]]

\* variant: edges are pushed only onto an adjacency list that already exists
updateRelationshipGraph_onlyExisting(graph, contentData) ==
  IF contentData.id \in DOMAIN graph
  THEN MapSet(graph, contentData.id, graph[contentData.id] \o contentData.relationships)
  ELSE graph

updateRelationshipGraph(graph, contentData) ==
  IF contentData.relationships = <<>> THEN graph
  ELSE MapSet(graph, contentData.id,
              (IF contentData.id \in DOMAIN graph THEN graph[contentData.id] ELSE <<>>)
                 \o contentData.relationships)

\* variant: totalContent kept as an independently incremented counter
updateIndexingStatus_incrementsTotal(status, outcome, index) ==
  CASE outcome = "indexed" -> [status EXCEPT !.indexedContent = @ + 1,
                                             !.totalContent = @ + 1]
    [] outcome = "failed"  -> [status EXCEPT !.failedContent = @ + 1]
    [] outcome = "pending" -> [status EXCEPT !.pendingContent = @ + 1]
    [] OTHER -> status

updateIndexingStatus(status, outcome, index) ==
  LET counted ==
        CASE outcome = "indexed" -> [status EXCEPT !.indexedContent = @ + 1]
          [] outcome = "failed"  -> [status EXCEPT !.failedContent = @ + 1]
          [] outcome = "pending" -> [status EXCEPT !.pendingContent = @ + 1]
          [] OTHER -> status
  IN [counted EXCEPT !.totalContent = Size(index)]

\* the text optimizeForSearch stores in contentData.searchableText
searchableTextOf(contentData) ==
  toLowerCase(joinSpace(<<Chars(contentData.title), Chars(contentData.description),
                          Chars(contentData.text)>>
                        \o [i \in 1..Len(contentData.classification.tags) |->
                              Chars(contentData.classification.tags[i])]))

\* It is assigned in the step that commits the record, from fields that never
\* change afterwards; it is tabulated per content and looked up where the
\* code reads content.searchableText.
SearchableTexts ==
  {<<k, searchableTextOf([title |-> k.title, description |-> k.description,
                          text |-> k.text, classification |-> classifyContent(k)])>> :
     k \in KnownContents}

searchableText(content) ==
  (CHOOSE p \in SearchableTexts : p[1] = ContentKey(content))[2]

searchEntryOf(contentData) ==
  [id |-> contentData.id, title |-> contentData.title,
   description |-> contentData.description,
   text |-> contentData.text,
   category |-> contentData.classification.category,
   priority |-> contentData.classification.priority,
   tags |-> contentData.classification.tags,
   timestamp |-> contentData.timestamp]

\* updateSearchIndex: contentCache.set, then the call into window.modernSearch
updateSearchIndex(cache, searchEntry) == MapSet(cache, searchEntry.id, searchEntry)

\* indexContent from the store into contentIndex on, for the classified and
\* enriched contentData
storeContent(s, contentData, ms) ==
  LET index1   == MapSet(s.contentIndex, contentData.id, contentData)
      meta1    == MapSet(s.metadataStore, contentData.id, contentData.metadata)
      graph1   == updateRelationshipGraph(s.relationshipGraph, contentData)
      status1  == updateIndexingStatus(s.indexingStatus, "indexed", index1)
      cache1   == updateSearchIndex(s.contentCache, searchEntryOf(contentData))
      status2  == IF ms = "throws"
                  THEN updateIndexingStatus(status1, "failed", index1)
                  ELSE status1
  IN [contentIndex |-> index1, metadataStore |-> meta1,
      relationshipGraph |-> graph1, contentCache |-> cache1,
      indexingStatus |-> status2]

\* contentData.classification = ...; contentData.metadata = { ... }
classifyAndEnrich(index, contentData, t) ==
  Const([k \in (DOMAIN contentData) \cup {"classification"} |->
           IF k = "classification" THEN classificationOf(contentData)
           ELSE contentData[k]],
        LAMBDA classified :
          [classified EXCEPT
             !.metadata = spread(@, enrichMetadata(index, classified, t))])

\* indexContent past the duplicate check
commitContent(s, contentData, t, ms) ==
  IF enrichThrows(contentData)
  THEN [s EXCEPT !.indexingStatus = updateIndexingStatus(@, "failed", s.contentIndex)]
  ELSE Const(classifyAndEnrich(s.contentIndex, contentData, t),
             LAMBDA enriched : storeContent(s, enriched, ms))

\* variant: a dropped duplicate is reported through the status tracker
indexContent_countsDup(s, contentData, t, ms) ==
  IF isDuplicate(s.contentIndex, contentData)
  THEN [s EXCEPT !.indexingStatus = updateIndexingStatus(@, "failed", s.contentIndex)]
  ELSE commitContent(s, contentData, t, ms)

\* indexContent(contentData) at time t with window.modernSearch in state ms
indexContent(s, contentData, t, ms) ==
  IF isDuplicate(s.contentIndex, contentData) THEN s
  ELSE commitContent(s, contentData, t, ms)

processNewContent(s, element, t, ms) ==
  Const(extractContentFromElement(element, t),
        LAMBDA contentData :
          IF contentData # Null THEN indexContent(s, contentData, t, ms) ELSE s)

RECURSIVE processAll(_, _, _, _)
processAll(s, elems, t, ms) ==
  IF elems = <<>> THEN s
  ELSE Const(processNewContent(s, Head(elems), t, ms),
             LAMBDA next : processAll(next, Tail(elems), t, ms))

\* variant: eviction forgets the search projection
cleanupOldContent_keepsCache(s, t) ==
  LET old == {id \in DOMAIN s.contentIndex : t - s.contentIndex[id].timestamp > maxAge}
  IN [s EXCEPT !.contentIndex = MapDelete(@, old),
               !.metadataStore = MapDelete(@, old)]

\* variant: eviction forgets the metadata store
cleanupOldContent_keepsMetadata(s, t) ==
  LET old == {id \in DOMAIN s.contentIndex : t - s.contentIndex[id].timestamp > maxAge}
  IN [s EXCEPT !.contentIndex = MapDelete(@, old),
               !.contentCache = MapDelete(@, old)]

\* variant: the age is computed with the operands swapped, nothing is old
cleanupOldContent_never(s, t) ==
  LET old == {id \in DOMAIN s.contentIndex : s.contentIndex[id].timestamp - t > maxAge}
  IN [s EXCEPT !.contentIndex = MapDelete(@, old),
               !.metadataStore = MapDelete(@, old),
               !.contentCache = MapDelete(@, old)]

\* variant: a record whose age equals the retention window is evicted too
cleanupOldContent_atLeast(s, t) ==
  LET old == {id \in DOMAIN s.contentIndex : t - s.contentIndex[id].timestamp >= maxAge}
  IN [s EXCEPT !.contentIndex = MapDelete(@, old),
               !.metadataStore = MapDelete(@, old),
               !.contentCache = MapDelete(@, old)]

cleanupOldContent(s, t) ==
  LET old == {id \in DOMAIN s.contentIndex : t - s.contentIndex[id].timestamp > maxAge}
  IN [s EXCEPT !.contentIndex = MapDelete(@, old),
               !.metadataStore = MapDelete(@, old),
               !.contentCache = MapDelete(@, old)]

\* variant: the rebuild sets each adjacency list to the record's relationships
updateContentRelationships_replaces(s) ==
  LET withEdges == {id \in DOMAIN s.contentIndex : s.contentIndex[id].relationships # <<>>}
  IN [s EXCEPT !.relationshipGraph =
        [id \in (DOMAIN @) \cup withEdges |->
           IF id \in withEdges THEN s.contentIndex[id].relationships ELSE @[id]]]

updateContentRelationships(s) ==
  LET withEdges == {id \in DOMAIN s.contentIndex : s.contentIndex[id].relationships # <<>>}
  IN [s EXCEPT !.relationshipGraph =
        [id \in (DOMAIN @) \cup withEdges |->
           (IF id \in DOMAIN @ THEN @[id] ELSE <<>>)
             \o (IF id \in withEdges THEN s.contentIndex[id].relationships ELSE <<>>)]]

\* All orders in which a scan can meet a subset of the elements.
Orders(S) == {q \in UNION {[1..n -> S] : n \in 0..Cardinality(S)} :
                \A i, j \in DOMAIN q : i # j => q[i] # q[j]}

\* --------------------------------------------------------------- search
\* new RegExp(word, 'gi') over the characters the queries are written in:
\* "." matches any character, "[" opens a character class that "]" closes,
\* anything else stands for itself.  A pattern is a sequence of items that
\* each match one character; an unterminated class is a SyntaxError.
RECURSIVE parseRegExp(_, _)
parseRegExp(word, i) ==
  IF i > Len(word) THEN <<>>
  ELSE IF word[i] = "."
  THEN <<[kind |-> "any", chars |-> {}]>> \o parseRegExp(word, i + 1)
  ELSE IF word[i] = "["
  THEN IF \A j \in (i + 1)..Len(word) : word[j] # "]"
       THEN <<[kind |-> "SyntaxError", chars |-> {}]>>
       ELSE LET close == CHOOSE j \in (i + 1)..Len(word) :
                           /\ word[j] = "]"
                           /\ \A k \in (i + 1)..(j - 1) : word[k] # "]"
            IN <<[kind |-> "class",
                  chars |-> {word[k] : k \in (i + 1)..(close - 1)}]>>
                 \o parseRegExp(word, close + 1)
  ELSE <<[kind |-> "char", chars |-> {word[i]}]>> \o parseRegExp(word, i + 1)

\* the RegExp constructor throws
regExpThrows(word) ==
  LET pattern == parseRegExp(word, 1)
  IN \E k \in 1..Len(pattern) : pattern[k].kind = "SyntaxError"

itemMatches(item, c) == item.kind = "any" \/ c \in item.chars

\* text.match(regex).length with the g flag: matches are taken left to right
\* and do not overlap; the empty pattern matches at every position
RECURSIVE matchCount(_, _, _)
matchCount(text, pattern, i) ==
  IF pattern = <<>> THEN Len(text) + 1
  ELSE IF i + Len(pattern) - 1 > Len(text) THEN 0
  ELSE IF \A k \in 1..Len(pattern) : itemMatches(pattern[k], text[i + k - 1])
       THEN 1 + matchCount(text, pattern, i + Len(pattern))
       ELSE matchCount(text, pattern, i + 1)

RECURSIVE sumRelevance(_, _, _)
sumRelevance(queryWords, text, i) ==
  IF i > Len(queryWords) THEN 0
  ELSE Const(parseRegExp(queryWords[i], 1), LAMBDA regex : matchCount(text, regex, 1))
         + sumRelevance(queryWords, text, i + 1)

\* calculateRelevance(query, text): the score, or the SyntaxError of a word
\* of the query that is not a regular expression
calculateRelevance(query, text) ==
  Const(splitWhitespace(query), LAMBDA queryWords :
    IF \E i \in 1..Len(queryWords) : regExpThrows(queryWords[i])
    THEN [threw |-> TRUE, score |-> 0]
    ELSE [threw |-> FALSE, score |-> sumRelevance(queryWords, text, 1)])

\* variant: the priority filter is not applied
passesFilters_noPriority(content, filters) ==
  /\ ~(filters.category # "" /\ content.classification.category # filters.category)
  /\ ~(filters.type # "" /\ content.type # filters.type)

\* the three `continue` tests of searchContent
passesFilters(content, filters) ==
  /\ ~(filters.category # "" /\ content.classification.category # filters.category)
  /\ ~(filters.priority # "" /\ content.classification.priority # filters.priority)
  /\ ~(filters.type # "" /\ content.type # filters.type)

\* { ...content, relevance }
withRelevance(content, relevance) ==
  [k \in (DOMAIN content) \cup {"relevance"} |->
     IF k = "relevance" THEN relevance ELSE content[k]]

\* the loop of searchContent over the entries keys[i..]
RECURSIVE searchFrom(_, _, _, _, _)
searchFrom(index, keys, i, queryLower, filters) ==
  IF i > Len(keys) THEN [threw |-> FALSE, results |-> <<>>]
  ELSE LET content == index[keys[i]]
           rest == searchFrom(index, keys, i + 1, queryLower, filters)
       IN Const(searchableText(content), LAMBDA text :
            IF passesFilters(content, filters) /\ includes(text, queryLower)
            THEN Const(calculateRelevance(queryLower, text), LAMBDA relevance :
                   IF relevance.threw THEN [threw |-> TRUE, results |-> <<>>]
                   ELSE [rest EXCEPT
                           !.results = <<withRelevance(content, relevance.score)>> \o @])
            ELSE rest)

\* Array.prototype.sort((a, b) => b.relevance - a.relevance): stable
RECURSIVE insertByRelevance(_, _)
insertByRelevance(sorted, r) ==
  IF sorted = <<>> THEN <<r>>
  ELSE IF Head(sorted).relevance >= r.relevance
       THEN <<Head(sorted)>> \o insertByRelevance(Tail(sorted), r)
       ELSE <<r>> \o sorted

RECURSIVE sortByRelevance(_, _)
sortByRelevance(results, i) ==
  IF i = 0 THEN <<>>
  ELSE Const(sortByRelevance(results, i - 1),
             LAMBDA sorted : insertByRelevance(sorted, results[i]))

\* searchContent(query, filters) with the entries of contentIndex iterated in
\* the order keys: the sorted results, or the SyntaxError thrown through it
searchContent(index, keys, query, filters) ==
  Const(toLowerCase(Chars(query)), LAMBDA queryLower :
    Const(searchFrom(index, keys, 1, queryLower, filters), LAMBDA found :
      IF found.threw THEN [threw |-> TRUE, results |-> <<>>]
      ELSE Const(found.results, LAMBDA results :
             [threw |-> FALSE, results |-> sortByRelevance(results, Len(results))])))

\* ------------------------------------------------------------- insights
\* distribution[category] is defined for the categories that occur only
getCategoryDistribution(index) ==
  LET categories == {index[id].classification.category : id \in DOMAIN index}
  IN [c \in categories |->
        Cardinality({id \in DOMAIN index : index[id].classification.category = c})]

RECURSIVE totalEdges(_, _)
totalEdges(graph, ids) ==
  IF ids = {} THEN 0
  ELSE LET id == CHOOSE x \in ids : TRUE
       IN Len(graph[id]) + totalEdges(graph, ids \ {id})

\* totalRelationships / this.contentIndex.size: 0/0 is NaN and n/0 is
\* Infinity; a finite quotient is kept as numerator and denominator
divide(n, d) ==
  IF d = 0 THEN [is |-> IF n = 0 THEN "NaN" ELSE "Infinity", num |-> n, den |-> d]
  ELSE [is |-> "finite", num |-> n, den |-> d]

getRelationshipStats(index, graph) ==
  LET totalRelationships == totalEdges(graph, DOMAIN graph)
  IN [totalRelationships |-> totalRelationships,
      averageRelationshipsPerContent |-> divide(totalRelationships, Size(index))]

\* `x < n` for a quotient x: false for NaN and Infinity
quotientBelow(x, n) ==
  x.is = "finite" /\ x.num < n * x.den

\* variant: a record whose score equals the base score counts as low quality
generateContentRecommendations_atMost(index, graph) ==
  LET categories == getCategoryDistribution(index)
      \* categories.dashboard is undefined when no record has the category,
      \* and `undefined < 5` is false
      coverage == IF "dashboard" \in DOMAIN categories /\ categories["dashboard"] < 5
                  THEN <<"coverage">> ELSE <<>>
      lowQualityContent ==
        Cardinality({id \in DOMAIN index : index[id].metadata.qualityScore <= 5})
      quality == IF 10 * lowQualityContent > 3 * Size(index)
                 THEN <<"quality">> ELSE <<>>
      relationshipStats == getRelationshipStats(index, graph)
      relationships ==
        IF quotientBelow(relationshipStats.averageRelationshipsPerContent, 2)
        THEN <<"relationships">> ELSE <<>>
  IN coverage \o quality \o relationships

generateContentRecommendations(index, graph) ==
  LET categories == getCategoryDistribution(index)
      \* categories.dashboard is undefined when no record has the category,
      \* and `undefined < 5` is false
      coverage == IF "dashboard" \in DOMAIN categories /\ categories["dashboard"] < 5
                  THEN <<"coverage">> ELSE <<>>
      lowQualityContent ==
        Cardinality({id \in DOMAIN index : index[id].metadata.qualityScore < 5})
      quality == IF 10 * lowQualityContent > 3 * Size(index)
                 THEN <<"quality">> ELSE <<>>
      relationshipStats == getRelationshipStats(index, graph)
      relationships ==
        IF quotientBelow(relationshipStats.averageRelationshipsPerContent, 2)
        THEN <<"relationships">> ELSE <<>>
  IN coverage \o quality \o relationships

getContentDiscoveryInsights(index, graph, status) ==
  [indexingStatus |-> status,
   categoryDistribution |-> getCategoryDistribution(index),
   relationshipStats |-> getRelationshipStats(index, graph),
   recommendations |-> generateContentRecommendations(index, graph)]

\* the orders in which querySelectorAll can return the elements of the page
ElementOrders == Orders(Elements)

CountersBelowCap ==
  /\ indexingStatus.indexedContent < MaxCount
  /\ indexingStatus.failedContent < MaxCount

EdgesBelowCap ==
  \A id \in DOMAIN relationshipGraph : Len(relationshipGraph[id]) < MaxEdges

\* ----------------------------------------------------------------- actions
Tick(d) ==
  /\ now + d <= MaxNow
  /\ (now + d) % maxAge <= MaxDrift
  /\ now' = now + d
  /\ UNCHANGED <<contentIndex, metadataStore, relationshipGraph, contentCache,
                 indexingStatus, pc, modernSearch, destroyed, fullFailed, answer, inFlight>>

\* MutationObserver callback for one added node
DomMutation(element) ==
  /\ CountersBelowCap /\ EdgesBelowCap
  /\ Install(processNewContent(Engine, element, now, modernSearch))
  /\ UNCHANGED <<now, pc, modernSearch, destroyed, fullFailed>>
  /\ answer' = <<>>
  /\ UNCHANGED inFlight

\* window.fetch wrapper: response.ok, processAJAXResponse starts and suspends
\* at `await response.json()`
FetchResponse(h) ==
  /\ pc[h] = "idle"
  /\ pc' = [pc EXCEPT ![h] = "awaiting"]
  /\ UNCHANGED <<contentIndex, metadataStore, relationshipGraph, contentCache,
                 indexingStatus, now, modernSearch, destroyed, fullFailed, answer, inFlight>>

\* processAJAXResponse resumes: json() resolved (parsed) or rejected
AjaxResume(h, parsed) ==
  /\ pc[h] = "awaiting"
  /\ CountersBelowCap
  /\ pc' = [pc EXCEPT ![h] = "idle"]
  /\ IF parsed
     THEN Install(indexContent(Engine, ajaxContentData(Url, AjaxPayload, now),
                               now, modernSearch))
     ELSE UNCHANGED <<contentIndex, metadataStore, relationshipGraph,
                      contentCache, indexingStatus>>
  /\ UNCHANGED <<now, modernSearch, destroyed, fullFailed>>
  /\ answer' = <<>>
  /\ UNCHANGED inFlight

\* storageChange listener
processStorageContent(key, value) ==
  /\ CountersBelowCap
  /\ Install(indexContent(Engine, storageContentData(key, value, now),
                          now, modernSearch))
  /\ UNCHANGED <<now, pc, modernSearch, destroyed, fullFailed>>
  /\ answer' = <<>>
  /\ UNCHANGED inFlight

\* variant: the cycle evicts first and scans afterwards
refreshContentIndex_evictsFirst(elems) ==
  /\ \A i \in DOMAIN elems : elems[i].refreshSel
  /\ indexingStatus.indexedContent + Len(elems) <= MaxCount
  /\ indexingStatus.failedContent + Len(elems) <= MaxCount
  /\ elems # <<>> => EdgesBelowCap
  /\ Install(processAll(cleanupOldContent(Engine, now), elems, now, modernSearch))
  /\ UNCHANGED <<now, pc, modernSearch, destroyed, fullFailed>>
  /\ answer' = <<>>
  /\ UNCHANGED inFlight

\* 5-minute timer
refreshContentIndex(elems) ==
  /\ \A i \in DOMAIN elems : elems[i].refreshSel
  /\ indexingStatus.indexedContent + Len(elems) <= MaxCount
  /\ indexingStatus.failedContent + Len(elems) <= MaxCount
  /\ elems # <<>> => EdgesBelowCap
  /\ Install(cleanupOldContent(processAll(Engine, elems, now, modernSearch), now))
  /\ UNCHANGED <<now, pc, modernSearch, destroyed, fullFailed>>
  /\ answer' = <<>>
  /\ UNCHANGED inFlight

\* variant: the pass keeps the counters of the previous pass
performFullContentDiscovery_noReset(elems) ==
  /\ \A i \in DOMAIN elems : elems[i].fullSel
  /\ EdgesBelowCap
  /\ Install(updateContentRelationships(
               processAll(Engine, elems, now, modernSearch)))
  /\ fullFailed' = FALSE
  /\ UNCHANGED <<now, pc, modernSearch, destroyed>>
  /\ answer' = <<>>
  /\ UNCHANGED inFlight

\* hourly timer and the initial 2-second timeout
performFullContentDiscovery(elems) ==
  /\ \A i \in DOMAIN elems : elems[i].fullSel
  /\ EdgesBelowCap
  /\ LET reset == [Engine EXCEPT !.indexingStatus = ZeroStatus]
     IN Install(updateContentRelationships(
                  processAll(reset, elems, now, modernSearch)))
  /\ fullFailed' = FALSE
  /\ UNCHANGED <<now, pc, modernSearch, destroyed>>
  /\ answer' = <<>>
  /\ UNCHANGED inFlight

\* a full-discovery pass that throws partway: the status is reset and the
\* elements met so far are processed, the relationship rebuild is not reached
performFullContentDiscoveryFails(elems) ==
  /\ \A i \in DOMAIN elems : elems[i].fullSel
  /\ EdgesBelowCap
  /\ LET reset == [Engine EXCEPT !.indexingStatus = ZeroStatus]
     IN Install(processAll(reset, elems, now, modernSearch))
  /\ fullFailed' = TRUE
  /\ UNCHANGED <<now, pc, modernSearch, destroyed>>
  /\ answer' = <<>>
  /\ UNCHANGED inFlight

destroy ==
  /\ contentIndex' = EmptyMap
  /\ metadataStore' = EmptyMap
  /\ relationshipGraph' = EmptyMap
  /\ contentCache' = EmptyMap
  /\ destroyed' = TRUE
  /\ UNCHANGED <<indexingStatus, now, pc, modernSearch, fullFailed>>
  /\ answer' = <<>>
  /\ UNCHANGED inFlight

\* the host page installs, replaces or removes window.modernSearch
SetModernSearch(v) ==
  /\ modernSearch # v
  /\ modernSearch' = v
  /\ UNCHANGED <<contentIndex, metadataStore, relationshipGraph, contentCache,
                 indexingStatus, now, pc, destroyed, fullFailed, answer, inFlight>>

Next ==
  \/ \E d \in TickSteps : Tick(d)
  \/ \E e \in Elements : DomMutation(e)
  \/ \E h \in Handlers : FetchResponse(h)
  \/ \E h \in Handlers, parsed \in BOOLEAN : AjaxResume(h, parsed)
  \/ \E v \in StorageValues : processStorageContent(StorageKey, v)
  \/ \E elems \in ElementOrders : refreshContentIndex(elems)
  \/ \E elems \in ElementOrders : performFullContentDiscovery(elems)
  \/ destroy
  \/ \E v \in {"absent", "throws"} : SetModernSearch(v)

Spec == Init /\ [][Next]_vars

\* The two setInterval timers of setupPeriodicRefresh.  Neither handle is ever
\* cleared, and an exception thrown by one callback does not cancel either
\* interval, so the refresh timer keeps firing.
RefreshTimer == \E elems \in ElementOrders : refreshContentIndex(elems)

NextTimers ==
  \/ \E d \in TickSteps : Tick(d)
  \/ \E e \in Elements : DomMutation(e)
  \/ \E v \in {"absent", "throws"} : SetModernSearch(v)
  \/ RefreshTimer
  \/ \E elems \in ElementOrders : performFullContentDiscovery(elems)
  \/ \E elems \in ElementOrders : performFullContentDiscoveryFails(elems)

SpecTimers == Init /\ [][NextTimers]_vars /\ WF_vars(RefreshTimer)

\* ------------------------------------------------- queries on the engine
\* MutationObserver callback for one added node of a page that also carries
\* the probe elements
ProbeCapture(element) ==
  /\ indexingStatus.indexedContent < MaxRecords
  /\ Install(processNewContent(Engine, element, now, modernSearch))
  /\ UNCHANGED <<now, pc, modernSearch, destroyed, fullFailed>>
  /\ answer' = <<>>
  /\ UNCHANGED inFlight

\* the entries of contentIndex in an order in which the Map can iterate them
KeyOrders == {keys \in Orders(DOMAIN contentIndex) : Len(keys) = Size(contentIndex)}

\* a caller runs searchContent(query, filters)
Search(query, filters, keys) ==
  /\ \E returned \in {searchContent(contentIndex, keys, query, filters)} :
        answer' = [op |-> "search", query |-> query, filters |-> filters,
                   threw |-> returned.threw, results |-> returned.results]
  /\ UNCHANGED <<contentIndex, metadataStore, relationshipGraph, contentCache,
                 indexingStatus, now, pc, modernSearch, destroyed, fullFailed,
                 inFlight>>

\* a caller runs getContentDiscoveryInsights()
Insights ==
  /\ answer' = [op |-> "insights",
                insights |-> getContentDiscoveryInsights(contentIndex,
                                                         relationshipGraph,
                                                         indexingStatus)]
  /\ UNCHANGED <<contentIndex, metadataStore, relationshipGraph, contentCache,
                 indexingStatus, now, pc, modernSearch, destroyed, fullFailed,
                 inFlight>>

NextQuery ==
  \/ \E e \in Elements \cup ProbeElements : ProbeCapture(e)
  \/ \E d \in TickSteps : Tick(d)
  \/ refreshContentIndex(<<>>)
  \/ destroy
  \/ \E r \in Requests, keys \in KeyOrders : Search(r.query, r.filters, keys)
  \/ Insights

SpecQuery == Init /\ [][NextQuery]_vars

\* ------------------------------------------------ the capture sources
\* processAJAXResponse resumes for the request of url with json() resolved
\* to data
AjaxResponse(h, url, data) ==
  /\ pc[h] = "awaiting"
  /\ CountersBelowCap
  /\ pc' = [pc EXCEPT ![h] = "idle"]
  /\ Install(indexContent(Engine, ajaxContentData(url, data, now), now, modernSearch))
  /\ UNCHANGED <<now, modernSearch, destroyed, fullFailed>>
  /\ answer' = <<>>
  /\ UNCHANGED inFlight

NextSources ==
  \/ \E e \in Elements \cup ProbeElements : ProbeCapture(e)
  \/ \E h \in Handlers : FetchResponse(h)
  \/ \E h \in Handlers, url \in Urls, data \in Payloads : AjaxResponse(h, url, data)
  \/ \E v \in SourceStorageValues : processStorageContent(StorageKey, v)

SpecSources == Init /\ [][NextSources]_vars

\* ------------------------------------------- indexContent, statement by statement
\* The statements of one indexContent call as separate steps.  inFlight.line
\* is the source line of the statement that runs next, inFlight.trace the
\* statements that have run.
StartCall(contentData) ==
  [line |-> 405, contentData |-> contentData, trace |-> <<>>]

\* the call moves on to the statement at line, having run the statement named
Advance(line, named) ==
  inFlight' = [inFlight EXCEPT !.line = line, !.trace = Append(@, named)]

\* MutationObserver callback up to its call of indexContent
processNewContentCalls(element) ==
  /\ inFlight = <<>>
  /\ CountersBelowCap
  /\ extractContentFromElement(element, now) # Null
  /\ inFlight' = StartCall(extractContentFromElement(element, now))
  /\ UNCHANGED <<contentIndex, metadataStore, relationshipGraph, contentCache,
                 indexingStatus, now, pc, modernSearch, destroyed, fullFailed, answer>>

\* storageChange listener up to its call of indexContent
processStorageContentCalls(key, value) ==
  /\ inFlight = <<>>
  /\ CountersBelowCap
  /\ inFlight' = StartCall(storageContentData(key, value, now))
  /\ UNCHANGED <<contentIndex, metadataStore, relationshipGraph, contentCache,
                 indexingStatus, now, pc, modernSearch, destroyed, fullFailed, answer>>

\* if (this.isDuplicate(contentData)) return;
StepIsDuplicate ==
  /\ inFlight # <<>> /\ inFlight.line = 405
  /\ IF isDuplicate(contentIndex, inFlight.contentData)
     THEN inFlight' = <<>>
     ELSE Advance(410, "dedup")
  /\ UNCHANGED <<contentIndex, metadataStore, relationshipGraph, contentCache,
                 indexingStatus, now, pc, modernSearch, destroyed, fullFailed, answer>>

\* classifyContent for the call in progress.  A text that is a number is
\* concatenated as its decimal digits, which hold no keyword: the result is
\* that of the same content with an empty text.
classificationInFlight ==
  IF typeOf(inFlight.contentData.text) = "string"
  THEN classificationOf(inFlight.contentData)
  ELSE classifyContent([ContentKey(inFlight.contentData) EXCEPT !.text = ""])

\* contentData.classification = this.classifyContent(contentData)
StepClassify ==
  /\ inFlight # <<>> /\ inFlight.line = 410
  /\ inFlight' =
       [line |-> 414,
        contentData |->
          [k \in (DOMAIN inFlight.contentData) \cup {"classification"} |->
             IF k = "classification" THEN classificationInFlight
             ELSE inFlight.contentData[k]],
        trace |-> Append(inFlight.trace, "classify")]
  /\ UNCHANGED <<contentIndex, metadataStore, relationshipGraph, contentCache,
                 indexingStatus, now, pc, modernSearch, destroyed, fullFailed, answer>>

\* contentData.metadata = { ...contentData.metadata, ...this.enrichMetadata(contentData) }
StepEnrich ==
  /\ inFlight # <<>> /\ inFlight.line = 414
  /\ IF enrichThrows(inFlight.contentData)
     THEN inFlight' = [inFlight EXCEPT !.line = 435]
     ELSE inFlight' =
            [inFlight EXCEPT
               !.line = 418,
               !.contentData.metadata =
                  spread(@, enrichMetadata(contentIndex, inFlight.contentData, now)),
               !.trace = Append(@, "enrich")]
  /\ UNCHANGED <<contentIndex, metadataStore, relationshipGraph, contentCache,
                 indexingStatus, now, pc, modernSearch, destroyed, fullFailed, answer>>

\* this.contentIndex.set(contentData.id, contentData)
StepStoreIndex ==
  /\ inFlight # <<>> /\ inFlight.line = 418
  /\ contentIndex' = MapSet(contentIndex, inFlight.contentData.id, inFlight.contentData)
  /\ Advance(421, "index")
  /\ UNCHANGED <<metadataStore, relationshipGraph, contentCache,
                 indexingStatus, now, pc, modernSearch, destroyed, fullFailed, answer>>

\* this.metadataStore.set(contentData.id, contentData.metadata)
StepStoreMetadata ==
  /\ inFlight # <<>> /\ inFlight.line = 421
  /\ metadataStore' = MapSet(metadataStore, inFlight.contentData.id,
                             inFlight.contentData.metadata)
  /\ Advance(424, "metadata")
  /\ UNCHANGED <<contentIndex, relationshipGraph, contentCache,
                 indexingStatus, now, pc, modernSearch, destroyed, fullFailed, answer>>

\* this.updateRelationshipGraph(contentData)
StepRelationshipGraph ==
  /\ inFlight # <<>> /\ inFlight.line = 424
  /\ relationshipGraph' = updateRelationshipGraph(relationshipGraph, inFlight.contentData)
  /\ Advance(427, "graph")
  /\ UNCHANGED <<contentIndex, metadataStore, contentCache,
                 indexingStatus, now, pc, modernSearch, destroyed, fullFailed, answer>>

\* this.updateIndexingStatus('indexed')
StepStatusIndexed ==
  /\ inFlight # <<>> /\ inFlight.line = 427
  /\ indexingStatus' = updateIndexingStatus(indexingStatus, "indexed", contentIndex)
  /\ Advance(430, "status")
  /\ UNCHANGED <<contentIndex, metadataStore, relationshipGraph, contentCache,
                 now, pc, modernSearch, destroyed, fullFailed, answer>>

\* this.optimizeForSearch(contentData) down to this.contentCache.set in
\* updateSearchIndex
StepSearchEntry ==
  /\ inFlight # <<>> /\ inFlight.line = 430
  /\ contentCache' = updateSearchIndex(contentCache, searchEntryOf(inFlight.contentData))
  /\ Advance(640, "search")
  /\ UNCHANGED <<contentIndex, metadataStore, relationshipGraph,
                 indexingStatus, now, pc, modernSearch, destroyed, fullFailed, answer>>

\* if (window.modernSearch) window.modernSearch.addSearchableContent(searchEntry)
\* and the return of the call
StepNotify ==
  /\ inFlight # <<>> /\ inFlight.line = 640
  /\ IF modernSearch = "throws"
     THEN inFlight' = [inFlight EXCEPT !.line = 435]
     ELSE inFlight' = <<>>
  /\ UNCHANGED <<contentIndex, metadataStore, relationshipGraph, contentCache,
                 indexingStatus, now, pc, modernSearch, destroyed, fullFailed, answer>>

\* catch (error) { this.updateIndexingStatus('failed') }
StepCatch ==
  /\ inFlight # <<>> /\ inFlight.line = 435
  /\ indexingStatus' = updateIndexingStatus(indexingStatus, "failed", contentIndex)
  /\ inFlight' = <<>>
  /\ UNCHANGED <<contentIndex, metadataStore, relationshipGraph, contentCache,
                 now, pc, modernSearch, destroyed, fullFailed, answer>>

NextSteps ==
  \/ \E e \in Elements : processNewContentCalls(e)
  \/ \E v \in StorageValues : processStorageContentCalls(StorageKey, v)
  \/ StepIsDuplicate
  \/ StepClassify
  \/ StepEnrich
  \/ StepStoreIndex
  \/ StepStoreMetadata
  \/ StepRelationshipGraph
  \/ StepStatusIndexed
  \/ StepSearchEntry
  \/ StepNotify
  \/ StepCatch
  \/ \E v \in {"absent", "throws"} : inFlight = <<>> /\ SetModernSearch(v)

SpecSteps == Init /\ [][NextSteps]_vars

\* ------------------------------------------------------------ properties
Stores == <<contentIndex, metadataStore, relationshipGraph, contentCache>>

AllStoresEmpty ==
  /\ contentIndex = EmptyMap
  /\ metadataStore = EmptyMap
  /\ relationshipGraph = EmptyMap
  /\ contentCache = EmptyMap

AjaxCandidate == ajaxContentData(Url, AjaxPayload, now)

\* some record of the index has the candidate's (text, source) pair
Indexed(index, candidate) ==
  \E id \in DOMAIN index :
     index[id].text = candidate.text /\ index[id].source = candidate.source

\* one call of indexContent from a capture callback
IngestStep ==
  \/ \E e \in Elements : DomMutation(e)
  \/ \E h \in Handlers : AjaxResume(h, TRUE)
  \/ \E v \in StorageValues : processStorageContent(StorageKey, v)

\* the candidate of a capture callback is a duplicate
DupIngestStep ==
  \/ \E e \in Elements :
        /\ extractContentFromElement(e, now) # Null
        /\ Indexed(contentIndex, extractContentFromElement(e, now))
        /\ DomMutation(e)
  \/ \E h \in Handlers :
        Indexed(contentIndex, AjaxCandidate) /\ AjaxResume(h, TRUE)
  \/ \E v \in StorageValues :
        /\ Indexed(contentIndex, storageContentData(StorageKey, v, now))
        /\ processStorageContent(StorageKey, v)

CountersChanged ==
  \/ indexingStatus'.indexedContent # indexingStatus.indexedContent
  \/ indexingStatus'.failedContent # indexingStatus.failedContent
  \/ indexingStatus'.pendingContent # indexingStatus.pendingContent

\* C1: projection totality - the search projection has an entry for an id
\* exactly when the primary index has a record with that id, in every
\* reachable state.
C1_ProjectionTotality ==
  /\ DOMAIN contentCache = DOMAIN contentIndex
  /\ \A id \in DOMAIN contentCache : contentCache[id].id = id

\* all three sources are indexed and projected
C1_Witness ==
  /\ Size(contentIndex) = 3
  /\ Size(contentCache) = 3
  /\ {contentIndex[id].source : id \in DOMAIN contentIndex} = {"dom", "ajax", "storage"}

\* C2: deduplication - no two records stored under distinct ids have the
\* same (text, source) pair.
C2_Dedup ==
  \A id1, id2 \in DOMAIN contentIndex :
     id1 # id2 =>
        ~(/\ contentIndex[id1].text = contentIndex[id2].text
          /\ contentIndex[id1].source = contentIndex[id2].source)

\* one DOM record is indexed, a second element with the same text and another
\* id exists, and the same text is indexed under another source
C2_Witness ==
  /\ \E e1, e2 \in Elements :
        /\ generateContentId(e1) \in DOMAIN contentIndex
        /\ generateContentId(e2) \notin DOMAIN contentIndex
        /\ e1.textContent = e2.textContent
  /\ \E id1, id2 \in DOMAIN contentIndex :
        /\ contentIndex[id1].text = contentIndex[id2].text
        /\ contentIndex[id1].source # contentIndex[id2].source

\* C3: a capture whose (text, source) is already indexed changes no store and
\* no status counter; and the first DOM capture into an empty index leaves
\* totalContent = 1, so capturing the same item twice leaves it at 1.
C3_DuplicateIsNoOp ==
  [][ /\ (UNCHANGED <<Stores, indexingStatus>>) \/ ~DupIngestStep
      /\ \A e \in Elements :
            (contentIndex = EmptyMap /\ extractContentFromElement(e, now) # Null
               /\ DomMutation(e))
            => /\ indexingStatus'.totalContent = 1
               /\ Indexed(contentIndex', extractContentFromElement(e, now))
    ]_vars

\* the index holds exactly the record of E1 or E2, so capturing it again is a
\* duplicate; totalContent is 1
C3_Witness ==
  /\ Size(contentIndex) = 1
  /\ indexingStatus.totalContent = 1
  /\ indexingStatus.indexedContent = 1
  /\ \E e \in Elements : Indexed(contentIndex, extractContentFromElement(e, now))

\* C4: the totalContent reported by insights/export equals the number of
\* records in the primary index, in every reachable state.
C4_TotalIsLiveSize == indexingStatus.totalContent = Size(contentIndex)

\* C5: right after a status update made by a capture callback, totalContent
\* equals the size of the primary index.
C5_TotalAfterStatusUpdate ==
  [][ \/ indexingStatus'.totalContent = Size(contentIndex')
      \/ ~(CountersChanged /\ IngestStep) ]_vars

\* a failed and two indexed outcomes have been counted, the last on a
\* two-record index
C5_Witness ==
  /\ indexingStatus.failedContent = 1
  /\ indexingStatus.indexedContent = 2
  /\ indexingStatus.totalContent = 2
  /\ Size(contentIndex) = 2

EvictionComplete ==
  /\ DOMAIN metadataStore = DOMAIN contentIndex
  /\ DOMAIN contentCache = DOMAIN contentIndex
  /\ \A id \in DOMAIN contentIndex :
        /\ now - contentIndex[id].timestamp <= maxAge
        /\ now - contentCache[id].timestamp <= maxAge

\* C6: at the end of every refresh cycle no record older than the retention
\* window is in the primary index, the metadata store or the search
\* projection, and the three stores hold the same ids.
C6_EvictionComplete ==
  [][ \/ EvictionComplete'
      \/ ~(\E elems \in ElementOrders : refreshContentIndex(elems)) ]_vars

\* a record was evicted (its edges are still in the graph) while a younger
\* record was kept
C6_Witness ==
  /\ now > maxAge
  /\ \E id \in DOMAIN relationshipGraph : id \notin DOMAIN contentIndex
  /\ \E id \in DOMAIN contentIndex :
        /\ contentIndex[id].timestamp > 0
        /\ now - contentIndex[id].timestamp = maxAge

\* C7: after destroy the stores are empty and stay empty.
C7_ShutdownIsFinal == destroyed => AllStoresEmpty

\* C8: a failed ingestion adds exactly one to failedContent and nothing to
\* indexedContent.
C8_FailedNotIndexed ==
  [][ (IngestStep /\ indexingStatus'.failedContent # indexingStatus.failedContent)
        => /\ indexingStatus'.failedContent = indexingStatus.failedContent + 1
           /\ indexingStatus'.indexedContent = indexingStatus.indexedContent ]_vars

\* C9: an ingestion that ends in the failed outcome leaves the four stores
\* as they were.
C9_FailureLeavesStores ==
  [][ (IngestStep /\ indexingStatus'.failedContent # indexingStatus.failedContent)
        => UNCHANGED Stores ]_vars

\* C10: when a network response is handled while another handler is
\* suspended on the same (text, source), the check and the commit are one
\* step: afterwards the record is complete in every store, there is exactly
\* one record with that (text, source), and a handler that finds it is
\* dropped without any change.
C10_PerEventAtomic ==
  [][ \A h \in Handlers :
        ((\E g \in Handlers \ {h} : pc[g] = "awaiting") /\ AjaxResume(h, TRUE))
        => /\ Indexed(contentIndex, AjaxCandidate)
                => UNCHANGED <<Stores, indexingStatus>>
           /\ Cardinality({id \in DOMAIN contentIndex' :
                              /\ contentIndex'[id].text = AjaxCandidate.text
                              /\ contentIndex'[id].source = "ajax"}) = 1
           /\ AjaxCandidate.id \in DOMAIN metadataStore'
           /\ AjaxCandidate.id \in DOMAIN contentCache'
    ]_vars

\* a response has been committed while another handler is still suspended
C10_Witness ==
  /\ \E h \in Handlers : pc[h] = "awaiting"
  /\ Indexed(contentIndex, AjaxCandidate)
  /\ indexingStatus.indexedContent >= 1


OldRecordPresent ==
  \E id \in DOMAIN contentIndex : now - contentIndex[id].timestamp > maxAge

\* C11: a full-discovery pass that fails partway does not stop the refresh
\* timer: with the timer firing fairly, whenever a record has exceeded the
\* retention window it is eventually evicted.
C11_EvictionAfterFailedPass == OldRecordPresent ~> ~OldRecordPresent

\* the latest full-discovery pass failed and an expired record awaits eviction
C11_Witness == fullFailed /\ OldRecordPresent

\* the rules of the claim, in its order, each with the words that signal it
RuleOrder == <<"dashboard", "service", "metric", "user", "system">>

RuleWords ==
  [c \in {"dashboard", "service", "metric", "user", "system"} |->
     CASE c = "dashboard" -> {"dashboard"}
       [] c = "service" -> {"service"}
       [] c = "metric" -> {"metric", "performance"}
       [] c = "user" -> {"user", "profile"}
       [] c = "system" -> {"system", "config"}]

\* lower-cased text and title of a record, joined by a space
RecordText(content) ==
  toLowerCase(Chars(content.text) \o <<" ">> \o Chars(content.title))

MatchingRules(content) ==
  {i \in 1..Len(RuleOrder) :
     \/ content.type = RuleOrder[i]
     \/ \E w \in RuleWords[RuleOrder[i]] : includes(RecordText(content), Chars(w))}

HasBothKeywords(content) ==
  /\ includes(RecordText(content), Chars("dashboard"))
  /\ includes(RecordText(content), Chars("system"))

\* C12: the category of every indexed record is that of the last rule, in the
\* order dashboard, service, metric, user, system, whose signal matches (and
\* unknown when none does); a record whose combined text contains both
\* "dashboard" and "system" has category system.
C12_LastMatchWins ==
  \A id \in DOMAIN contentIndex :
     LET content == contentIndex[id]
         matching == MatchingRules(content)
     IN /\ content.classification.category =
             IF matching = {} THEN "unknown"
             ELSE RuleOrder[CHOOSE i \in matching : \A k \in matching : k <= i]
        /\ HasBothKeywords(content) => content.classification.category = "system"

\* a record with both keywords is indexed, next to one that no rule matches
C12_Witness ==
  /\ \E id \in DOMAIN contentIndex : HasBothKeywords(contentIndex[id])
  /\ \E id \in DOMAIN contentIndex : MatchingRules(contentIndex[id]) = {}

\* the latest read operation was op and the engine has not changed since
Answered(op) == DOMAIN answer # {} /\ answer.op = op

\* the supplied filters that the record does not satisfy by equality
FailedFilters(content, filters) ==
  {f \in {"category", "priority", "type"} :
     /\ filters[f] # ""
     /\ filters[f] # (CASE f = "category" -> content.classification.category
                        [] f = "priority" -> content.classification.priority
                        [] f = "type" -> content.type)}

\* C13: every record returned by searchContent satisfies all supplied filters
\* (category, priority, type) by equality, and no indexed record failing a
\* supplied filter is returned.
C13_ConjunctiveFilters ==
  (Answered("search") /\ ~answer.threw) =>
     /\ \A i \in 1..Len(answer.results) :
           FailedFilters(answer.results[i], answer.filters) = {}
     /\ \A id \in DOMAIN contentIndex :
           FailedFilters(contentIndex[id], answer.filters) # {}
             => \A i \in 1..Len(answer.results) : answer.results[i].id # id

\* search("Dashboard", {priority: "high"}) over a high-priority dashboard
\* record and a low-priority record that also mentions the dashboard has
\* returned the dashboard record only
C13_Witness ==
  /\ Answered("search") /\ ~answer.threw
  /\ answer.filters.priority = "high"
  /\ Len(answer.results) = 1
  /\ answer.results[1].classification.category = "dashboard"
  /\ \E id \in DOMAIN contentIndex :
        /\ contentIndex[id].classification.priority = "low"
        /\ includes(searchableText(contentIndex[id]), toLowerCase(Chars(answer.query)))

\* the indexed records that pass the filters of the answer and whose
\* searchableText contains its lower-cased query
Matching ==
  {id \in DOMAIN contentIndex :
     /\ FailedFilters(contentIndex[id], answer.filters) = {}
     /\ includes(searchableTextOf(contentIndex[id]), toLowerCase(Chars(answer.query)))}

\* C14: for every query and every index state searchContent returns a
\* sequence (the empty one when nothing matches) that holds exactly the
\* filter-eligible indexed records whose searchableText contains the
\* lower-cased query.
C14_ResultSet ==
  Answered("search") =>
     /\ ~answer.threw
     /\ {answer.results[i].id : i \in 1..Len(answer.results)} = Matching
     /\ Len(answer.results) = Cardinality(Matching)

\* number of occurrences of word in text, counted left to right without
\* overlap; the empty word occurs at every position
RECURSIVE Occurrences(_, _, _)
Occurrences(text, word, i) ==
  IF word = <<>> THEN Len(text) + 1
  ELSE IF i + Len(word) - 1 > Len(text) THEN 0
  ELSE IF \A k \in 1..Len(word) : text[i + k - 1] = word[k]
       THEN 1 + Occurrences(text, word, i + Len(word))
       ELSE Occurrences(text, word, i + 1)

RECURSIVE SumOccurrences(_, _, _)
SumOccurrences(text, words, i) ==
  IF i > Len(words) THEN 0
  ELSE Occurrences(text, words[i], 1) + SumOccurrences(text, words, i + 1)

\* the relevance of the claim for a record under the query of the answer
ClaimedRelevance(content) ==
  SumOccurrences(searchableTextOf(content),
                 splitWhitespace(toLowerCase(Chars(answer.query))), 1)

\* C15: the sequence returned by searchContent is in non-increasing order of
\* relevance, and the relevance of a record is the sum, over the
\* whitespace-separated words of the query, of the occurrences of the word in
\* the record's searchableText.
C15_Ranking ==
  (Answered("search") /\ ~answer.threw) =>
     /\ \A i \in 1..Len(answer.results) :
           answer.results[i].relevance = ClaimedRelevance(answer.results[i])
     /\ \A i, j \in 1..Len(answer.results) :
           i < j => ClaimedRelevance(answer.results[i]) >= ClaimedRelevance(answer.results[j])

DashboardRecords ==
  {id \in DOMAIN contentIndex : contentIndex[id].classification.category = "dashboard"}

\* C16: whenever fewer than 5 indexed records have category dashboard, none
\* included, the recommendations of the insights include the coverage
\* recommendation.
C16_CoverageRecommendation ==
  (Answered("insights") /\ Cardinality(DashboardRecords) < 5) =>
     \E i \in 1..Len(answer.insights.recommendations) :
        answer.insights.recommendations[i] = "coverage"

RECURSIVE EdgeCount(_)
EdgeCount(ids) ==
  IF ids = {} THEN 0
  ELSE LET id == CHOOSE x \in ids : TRUE
       IN Len(relationshipGraph[id]) + EdgeCount(ids \ {id})

\* C17: the average edges per record of the relationship stats is the total
\* number of edges divided by the number of indexed records, and it is
\* defined and 0 when the index is empty.
C17_AverageDefined ==
  Answered("insights") =>
     LET average == answer.insights.relationshipStats.averageRelationshipsPerContent
     IN /\ average.is = "finite"
        /\ IF Size(contentIndex) = 0 THEN average.num = 0
           ELSE average.num * Size(contentIndex)
                  = EdgeCount(DOMAIN relationshipGraph) * average.den

\* C18: the qualityScore in the metadata of every indexed record is at least
\* 0.5 and at most 1.0 (in tenths: 5 to 10), and is the capped sum of the base
\* and the bonuses for title, description and text length.
C18_QualityScoreBound ==
  \A id \in DOMAIN contentIndex :
     LET content == contentIndex[id]
         sum == 5 + (IF Len(content.title) > 5 THEN 2 ELSE 0)
                  + (IF Len(content.description) > 10 THEN 2 ELSE 0)
                  + (IF Len(content.text) > 20 THEN 1 ELSE 0)
     IN /\ 5 <= content.metadata.qualityScore
        /\ content.metadata.qualityScore <= 10
        /\ content.metadata.qualityScore = (IF sum < 10 THEN sum ELSE 10)

\* a record with the base score and a record with every bonus are indexed
C18_Witness ==
  /\ \E id \in DOMAIN contentIndex : contentIndex[id].metadata.qualityScore = 5
  /\ \E id \in DOMAIN contentIndex : contentIndex[id].metadata.qualityScore = 10

\* C21: every record in the primary index, whichever source produced it, has
\* a non-empty title or a non-empty text.
C21_Materialized ==
  \A id \in DOMAIN contentIndex :
     contentIndex[id].title # "" \/ contentIndex[id].text # ""

\* the bucket of the claim for an age in ms
AgeBucket(age) ==
  IF age < HourMs THEN "high" ELSE IF age < maxAge THEN "medium" ELSE "low"

\* C22: the updateFrequency written for a record at ingestion is the bucket
\* of the record's age since capture (high under 1 hour, medium under 24
\* hours, else low), so a record indexed right after capture gets high.
C22_UpdateFrequencyByAge ==
  [][ \A id \in DOMAIN contentIndex' :
         \/ id \in DOMAIN contentIndex /\ contentIndex'[id] = contentIndex[id]
         \/ contentIndex'[id].metadata.updateFrequency
              = AgeBucket(now' - contentIndex'[id].timestamp)
    ]_vars

\* C19: every id of the primary index has its entry in the metadata store
\* and, when its record has a relationship, an adjacency entry in the graph.
C19_StoreConsistency ==
  \A id \in DOMAIN contentIndex :
     /\ id \in DOMAIN metadataStore
     /\ contentIndex[id].relationships # <<>>
          => /\ id \in DOMAIN relationshipGraph
             /\ Len(relationshipGraph[id]) >= Len(contentIndex[id].relationships)

\* a record with a relationship and a record without one are both indexed
C19_Witness ==
  /\ \E id \in DOMAIN contentIndex : contentIndex[id].relationships # <<>>
  /\ \E id \in DOMAIN contentIndex :
        contentIndex[id].relationships = <<>> /\ id \notin DOMAIN relationshipGraph

OutcomeCounters(status) ==
  <<status.indexedContent, status.pendingContent, status.failedContent>>

\* C20: a full-discovery pass starts the three outcome counters from zero;
\* every other step leaves each of them unchanged or larger, a capture
\* callback adds at most one to each, and a refresh cycle that only evicts
\* does not change them.
C20_CounterLifecycle ==
  [][ /\ \A elems \in ElementOrders :
            \/ \A i \in 1..3 : OutcomeCounters(indexingStatus')[i] <= Len(elems)
            \/ ~performFullContentDiscovery(elems)
      /\ \/ \A i \in 1..3 :
               OutcomeCounters(indexingStatus')[i] >= OutcomeCounters(indexingStatus)[i]
         \/ \E elems \in ElementOrders : performFullContentDiscovery(elems)
      /\ \/ \A i \in 1..3 :
               OutcomeCounters(indexingStatus')[i] - OutcomeCounters(indexingStatus)[i]
                  \in {0, 1}
         \/ ~IngestStep
      /\ \/ OutcomeCounters(indexingStatus') = OutcomeCounters(indexingStatus)
         \/ ~refreshContentIndex(<<>>)
    ]_vars

\* a pass has reset the counters over a non-empty index and a later failure
\* has been counted
C20_Witness ==
  /\ indexingStatus.indexedContent = 0
  /\ indexingStatus.failedContent = 1
  /\ Size(contentIndex) = 2

\* the adjacency list of id before the step, empty when there is none
EdgesBefore(id) ==
  IF id \in DOMAIN relationshipGraph THEN relationshipGraph[id] ELSE <<>>

EdgesAfter(id) ==
  IF id \in DOMAIN relationshipGraph' THEN relationshipGraph'[id] ELSE <<>>

\* the step committed a record under id
Committed(id) ==
  id \notin DOMAIN contentIndex \/ contentIndex'[id] # contentIndex[id]

\* the step appended the relationships of the record now under id n times
Appended(id, n) ==
  LET rels == contentIndex'[id].relationships
  IN EdgesAfter(id) =
       EdgesBefore(id) \o (IF n >= 1 THEN rels ELSE <<>>)
                       \o (IF n >= 2 THEN rels ELSE <<>>)

FullPassStep == \E elems \in ElementOrders : performFullContentDiscovery(elems)

\* C23: relationship edges are append-only per id.  Before shutdown every
\* adjacency list is kept as a prefix of the list after the step; a step that
\* commits a record under an id appends the record's relationships to the
\* list of that id, and a full-discovery pass appends the relationships of
\* every indexed record once more, so a record with k relationships that was
\* indexed before the pass gains exactly k edges.
C23_AppendOnlyEdges ==
  [][ \/ destroy
      \/ /\ \A id \in DOMAIN relationshipGraph :
               /\ id \in DOMAIN relationshipGraph'
               /\ Len(relationshipGraph'[id]) >= Len(relationshipGraph[id])
               /\ SubSeq(relationshipGraph'[id], 1, Len(relationshipGraph[id]))
                     = relationshipGraph[id]
         /\ \A id \in DOMAIN contentIndex' :
               \E c \in {IF Committed(id) THEN 1 ELSE 0} :
                  \/ Appended(id, c)
                  \/ Appended(id, c + 1) /\ FullPassStep
         /\ \/ \A id \in DOMAIN contentIndex' :
                  Appended(id, IF Committed(id) THEN 2 ELSE 1)
            \/ ~FullPassStep
    ]_vars

\* a full-discovery pass has run over an indexed record with relationships:
\* its adjacency list holds the edges of the ingestion and those of the pass
C23_Witness ==
  /\ indexingStatus.indexedContent = 0
  /\ \E id \in DOMAIN contentIndex :
        /\ contentIndex[id].relationships # <<>>
        /\ relationshipGraph[id]
             = contentIndex[id].relationships \o contentIndex[id].relationships

\* the order of the statements of a committed ingestion according to the claim
ClaimedOrder ==
  <<"dedup", "classify", "enrich", "index", "metadata", "graph", "search", "status">>

\* C24: for every committed event the steps of the ingestion occur in the
\* order dedup check, classify, enrich, commit to the primary index and the
\* metadata store, relationship-graph update, search-projection update and
\* only then the status update: the indexed counter is never incremented
\* before the search entry of the record exists.
C24_StepOrder ==
  inFlight # <<>> =>
     /\ Len(inFlight.trace) <= Len(ClaimedOrder)
     /\ inFlight.trace = SubSeq(ClaimedOrder, 1, Len(inFlight.trace))
     /\ (\E i \in 1..Len(inFlight.trace) : inFlight.trace[i] = "status")
          => /\ inFlight.contentData.id \in DOMAIN contentCache
             /\ contentCache[inFlight.contentData.id]
                  = searchEntryOf(inFlight.contentData)

\* the (category, priority, confidence) triples of the classification rules,
\* confidence in tenths
ClassificationTable ==
  {<<"dashboard", "high", 9>>, <<"service", "high", 8>>, <<"metric", "medium", 8>>,
   <<"user", "medium", 7>>, <<"system", "high", 8>>, <<"unknown", "low", 5>>}

Triple(content) ==
  <<content.classification.category, content.classification.priority,
    content.classification.confidence>>

\* C25: every record in the primary index carries one of the six triples
\* dashboard/high/0.9, service/high/0.8, metric/medium/0.8, user/medium/0.7,
\* system/high/0.8, unknown/low/0.5, and it carries unknown/low/0.5 exactly
\* when no keyword signal and no type signal of any rule matches.
C25_ClassificationTable ==
  \A id \in DOMAIN contentIndex :
     /\ Triple(contentIndex[id]) \in ClassificationTable
     /\ Triple(contentIndex[id]) = <<"unknown", "low", 5>>
          <=> MatchingRules(contentIndex[id]) = {}

\* a record matched by the metric rule only is indexed next to a record that
\* no rule matches
C25_Witness ==
  /\ \E id \in DOMAIN contentIndex :
        /\ MatchingRules(contentIndex[id]) = {3}
        /\ Triple(contentIndex[id]) = <<"metric", "medium", 8>>
  /\ \E id \in DOMAIN contentIndex :
        /\ MatchingRules(contentIndex[id]) = {}
        /\ Triple(contentIndex[id]) = <<"unknown", "low", 5>>

\* the ids of store whose record in the index of s is no older than the
\* retention window
Retained(s, store) ==
  {id \in DOMAIN store :
     id \notin DOMAIN s.contentIndex \/ now - s.contentIndex[id].timestamp <= maxAge}

\* the step from the engine fields s to the next state removed nothing but
\* records older than the window, and only from the three owned stores
EvictionFrame(s) ==
  /\ \A id \in Retained(s, s.contentIndex) :
        id \in DOMAIN contentIndex' /\ contentIndex'[id] = s.contentIndex[id]
  /\ \A id \in Retained(s, s.metadataStore) :
        id \in DOMAIN metadataStore' /\ metadataStore'[id] = s.metadataStore[id]
  /\ \A id \in Retained(s, s.contentCache) :
        id \in DOMAIN contentCache' /\ contentCache'[id] = s.contentCache[id]
  /\ DOMAIN contentIndex' \subseteq DOMAIN s.contentIndex
  /\ DOMAIN metadataStore' \subseteq DOMAIN s.metadataStore
  /\ DOMAIN contentCache' \subseteq DOMAIN s.contentCache
  /\ relationshipGraph' = s.relationshipGraph
  /\ indexingStatus' = s.indexingStatus

\* every record of the index that is no older than the retention window is
\* still in the three owned stores after the step
RetainedKept ==
  \A id \in DOMAIN contentIndex :
     \/ now - contentIndex[id].timestamp > maxAge
     \/ /\ id \in DOMAIN contentIndex'
        /\ id \in DOMAIN metadataStore'
        /\ id \in DOMAIN contentCache'

\* C26: the eviction of a refresh cycle removes only ids whose record is
\* older than the retention window.  No step before shutdown, a refresh
\* cycle with its scan included, takes a record of age at most the window
\* out of the primary index, the metadata store or the search projection;
\* and the eviction by itself (a cycle whose scan meets no element) leaves
\* every such record unchanged in the three stores, and leaves the
\* relationship graph and the status counters as they were, the edges of
\* evicted ids included.
C26_EvictionFrame ==
  [][ /\ RetainedKept \/ destroy
      /\ EvictionFrame(Engine) \/ ~refreshContentIndex(<<>>)
    ]_vars

\* after an eviction: the edges of an evicted id are still in the graph and
\* a record whose age equals the retention window is still indexed
C26_Witness ==
  /\ ~destroyed
  /\ \E id \in DOMAIN relationshipGraph : id \notin DOMAIN contentIndex
  /\ \E id \in DOMAIN contentIndex :
        /\ now - contentIndex[id].timestamp = maxAge
        /\ id \in DOMAIN metadataStore /\ id \in DOMAIN contentCache

\* the records captured from localStorage under key
StorageRecords(index, key) ==
  {id \in DOMAIN index :
     index[id].source = "storage" /\ index[id].metadata.key = key}

\* C27: when a commit writes a record under an id that the primary index
\* already holds (the same storage key captured with a new value), the
\* record, its metadata entry and its search entry under that id are
\* replaced, the sizes of the three stores do not grow and indexedContent
\* grows by one; the index holds at most one record per storage key.
C27_SameIdReplacement ==
  [][ /\ \A id \in (DOMAIN contentIndex) \cap (DOMAIN contentIndex') :
           \/ contentIndex'[id] = contentIndex[id]
           \/ /\ metadataStore'[id] = contentIndex'[id].metadata
              /\ contentCache'[id] = searchEntryOf(contentIndex'[id])
              /\ Size(contentIndex') = Size(contentIndex)
              /\ Size(metadataStore') = Size(metadataStore)
              /\ Size(contentCache') = Size(contentCache)
              /\ indexingStatus'.indexedContent = indexingStatus.indexedContent + 1
      /\ Cardinality(StorageRecords(contentIndex', StorageKey)) <= 1
    ]_vars

\* the storage key has been captured twice with different values: one record
\* is indexed for it, with the second value, and two ingestions were counted
C27_Witness ==
  /\ indexingStatus.indexedContent = 2
  /\ Size(contentIndex) = 1 /\ Size(metadataStore) = 1 /\ Size(contentCache) = 1
  /\ \E id \in StorageRecords(contentIndex, StorageKey) :
        contentIndex[id].metadata.updateFrequency # "unknown"

\* C28: the quality recommendation is unreachable: every indexed record has
\* a qualityScore of at least 0.5 (5 tenths) in its metadata, so whenever the
\* insights are computed the recommendations do not include the quality
\* recommendation.
C28_NoQualityRecommendation ==
  /\ \A id \in DOMAIN contentIndex :
        /\ "qualityScore" \in DOMAIN contentIndex[id].metadata
        /\ ~(contentIndex[id].metadata.qualityScore < 5)
  /\ Answered("insights") =>
        \A i \in 1..Len(answer.insights.recommendations) :
           answer.insights.recommendations[i] # "quality"

\* the insights were computed over an index all of whose records have the
\* base score
C28_Witness ==
  /\ Answered("insights")
  /\ Size(contentIndex) = 2
  /\ \A id \in DOMAIN contentIndex : contentIndex[id].metadata.qualityScore = 5

\* the element has a record, in the primary index, that has exceeded the
\* retention window
Expired(element) ==
  /\ generateContentId(element) \in DOMAIN contentIndex
  /\ now - contentIndex[generateContentId(element)].timestamp > maxAge

\* C29: within one refresh cycle the scan runs before the eviction: an
\* element that the scan meets while its record has exceeded the retention
\* window is dropped as a duplicate and its record is then evicted, so right
\* after the cycle the element has no record in the primary index, the
\* metadata store or the search projection (its edges stay in the graph).
C29_ScanBeforeEviction ==
  [][ \A elems \in ElementOrders :
         \/ \A i \in DOMAIN elems :
               Expired(elems[i]) =>
                  /\ generateContentId(elems[i]) \notin DOMAIN contentIndex'
                  /\ generateContentId(elems[i]) \notin DOMAIN metadataStore'
                  /\ generateContentId(elems[i]) \notin DOMAIN contentCache'
         \/ ~refreshContentIndex(elems)
    ]_vars

\* right after such a cycle: an element of the refresh scan that was indexed
\* once (its edges are in the graph) has no record in the three stores
C29_Witness ==
  /\ ~destroyed /\ now > maxAge
  /\ indexingStatus.indexedContent = 1
  /\ \E e \in Elements :
        /\ e.refreshSel
        /\ generateContentId(e) \in DOMAIN relationshipGraph
        /\ generateContentId(e) \notin DOMAIN contentIndex
        /\ generateContentId(e) \notin DOMAIN metadataStore
        /\ generateContentId(e) \notin DOMAIN contentCache

====
